---- MODULE Spec2Model ----
(***************************************************************************)
(* Model of src/mods/sets.rs: the SetSplitStrategie trait, SplitByCount,   *)
(* generate_resources_sets and create_set_module_file.                     *)
(*                                                                         *)
(* A file is a sequence of tokens, one token per fragment the code writes. *)
(* Every I/O step may fail; a failed step returns the error (`?`).         *)
(* A call that returned Ok may be followed by a second call on the same    *)
(* resources; a SplitByCount may also be used on its own by any caller.    *)
(***************************************************************************)
EXTENDS Integers, Sequences, FiniteSets, TLC

\* ---- bounds -------------------------------------------------------------
MaxN == 5        \* most resources discovery yields
MaxMax == 3      \* largest SplitByCount threshold
MaxKeys == 2     \* number of distinct logical keys
MaxStart == 1    \* largest `current` a SplitByCount strategy is handed over with
MaxCalls == 5    \* most calls made on a strategy used on its own

Keys == 1..MaxKeys

\* the sequences collect_resources may return: resource i is the i-th
\* discovered path, resources[i] its logical key
\* (a key is a name: of the sequences that differ only by a renaming of the
\* keys, the one that numbers the keys in order of first appearance is taken)
ResourceSeqs ==
    {s \in UNION {[1..n -> Keys] : n \in 0..MaxN} :
        \A i \in 1..Len(s) : s[i] = 1 \/ \E j \in 1..(i - 1) : s[j] = s[i] - 1}

\* ---- tokens and file names ----------------------------------------------
Tok(t, r) == [t |-> t, r |-> r]
File(kind, idx) == [kind |-> kind, idx |-> idx]

generated_filename == File("root", 0)
module_dir == File("dir", 0)
mod_rs == File("mod", 0)
\* a file name that ignores the index
SetName_const(module_index) == File("set", 1)

\* line 176: module_dir.join(format!("set_{module_index}.rs"))
SetName(module_index) == File("set", module_index)

\* ---- split strategies ---------------------------------------------------
\* SplitByCount::new
SplitByCount_new(max) == [kind |-> "count", current |-> 0, max |-> max]

\* some other implementation of the trait: its answers are its own business
OtherStrategie == [kind |-> "other", current |-> 0, max |-> 0]

\* register: SplitByCount counts, another implementation does what it likes
register(s) ==
    IF s.kind = "count" THEN [s EXCEPT !.current = s.current + 1] ELSE s

\* should_split with an answer that does not depend on the counters
should_split_any(s) == BOOLEAN

\* should_split with `>` for `>=`
should_split_gt(s) ==
    IF s.kind = "count" THEN {s.current > s.max} ELSE BOOLEAN

\* should_split: the answers the call may give
should_split_of(s) ==
    IF s.kind = "count" THEN {s.current >= s.max} ELSE BOOLEAN

\* reset that leaves the counter alone
reset_forgotten(s) == s

\* reset
reset(s) ==
    IF s.kind = "count" THEN [s EXCEPT !.current = 0] ELSE s

\* the strategies a caller may hand over: a SplitByCount, fresh or already
\* used, or another implementation
Strategies ==
    {[SplitByCount_new(m) EXCEPT !.current = c] : m \in 0..MaxMax, c \in 0..MaxStart}
        \cup {OtherStrategie}

\* ---- state --------------------------------------------------------------
VARIABLES
    pc,                  \* position in generate_resources_sets
    fs,                  \* the output directory: file name -> tokens written
    resources,           \* the discovered resources (their keys)
    set_split_strategy,  \* the strategy passed by mutable reference
    strategy0,           \* the strategy as it was handed over
    modules_count,
    set_file,            \* the index of the module file the handle is open on
    should_split,        \* the carried flag
    next_resource,       \* position of the for loop over resources
    module_index,        \* argument of create_set_module_file / loop index
    failed,              \* some I/O step has returned an error
    log,                 \* calls made so far, in order
    previous             \* the output directory an earlier run has left

vars == <<pc, fs, resources, set_split_strategy, strategy0, modules_count,
          set_file, should_split, next_resource, module_index, failed, log,
          previous>>

Ev(op, f, i) == [op |-> op, f |-> f, i |-> i]
WriteEv(f, tok) == [op |-> "write", f |-> f.kind, i |-> f.idx, tok |-> tok]

\* ---- file system operations ---------------------------------------------
\* File::create: creates the file, or truncates it when it exists
Create(f) == [g \in (DOMAIN fs) \cup {f} |-> IF g = f THEN <<>> ELSE fs[g]]

\* a write of one fragment to an open file
Write(f, tok) == [fs EXCEPT ![f] = Append(@, tok)]

\* the error of a failed step dropped
Propagate_ignored(ok, next) == next

\* the `?` operator: go on when the step succeeded, return the error otherwise
Propagate(ok, next) == IF ok THEN next ELSE "err"

\* what a failed write may leave behind: nothing, or part of the fragment
FailedWrite(f) == {fs, Write(f, Tok("torn", 0))}

\* either a call of generate_resources_sets is about to start, or a caller
\* has built a SplitByCount and uses it on its own
Init ==
    /\ pc \in {"collect", "strategy"}
    /\ fs = <<>>
    /\ resources = <<>>
    /\ set_split_strategy \in
         (IF pc = "strategy" THEN {SplitByCount_new(m) : m \in 0..MaxMax}
                             ELSE Strategies)
    /\ strategy0 = set_split_strategy
    /\ modules_count = 0
    /\ set_file = 0
    /\ should_split = FALSE
    /\ next_resource = 1
    /\ module_index = 0
    /\ failed = FALSE
    /\ log = <<>>
    /\ previous = <<>>

\* one step that creates file f
CreateStep(at, f, next) ==
    /\ pc = at
    /\ \E ok \in BOOLEAN :
        /\ pc' = Propagate(ok, next)
        /\ failed' = ~ok
        /\ fs' = IF ok THEN Create(f) ELSE fs
        /\ log' = IF ok THEN Append(log, Ev("create", f.kind, f.idx)) ELSE log

\* one step that writes fragment tok to file f
WriteStep(at, f, tok, next) ==
    /\ pc = at
    /\ \E ok \in BOOLEAN :
        /\ pc' = Propagate(ok, next)
        /\ failed' = ~ok
        /\ IF ok THEN fs' = Write(f, tok) ELSE fs' \in FailedWrite(f)
        /\ log' = IF ok THEN Append(log, WriteEv(f, tok)) ELSE log

\* line 105; a second run discovers what the first has discovered
CollectResources ==
    /\ pc = "collect"
    /\ \E ok \in BOOLEAN :
        /\ pc' = Propagate(ok, "create_generated")
        /\ failed' = ~ok
        /\ IF ok
             THEN resources' \in (IF DOMAIN previous = {} THEN ResourceSeqs
                                                       ELSE {resources})
             ELSE resources' = resources
    /\ UNCHANGED <<fs, set_split_strategy, strategy0, modules_count, set_file,
                   should_split, next_resource, module_index, log, previous>>

\* line 107
CreateGeneratedFile ==
    /\ CreateStep("create_generated", generated_filename, "create_dir")
    /\ UNCHANGED <<resources, set_split_strategy, strategy0, modules_count,
                   set_file, should_split, next_resource, module_index,
                   previous>>

\* lines 109-113
CreateModuleDir ==
    /\ CreateStep("create_dir", module_dir, "create_mod")
    /\ UNCHANGED <<resources, set_split_strategy, strategy0, modules_count,
                   set_file, should_split, next_resource, module_index,
                   previous>>

\* line 115
CreateModuleFile ==
    /\ CreateStep("create_mod", mod_rs, "uses")
    /\ UNCHANGED <<resources, set_split_strategy, strategy0, modules_count,
                   set_file, should_split, next_resource, module_index,
                   previous>>

\* line 117
GenerateUses ==
    /\ WriteStep("uses", mod_rs, Tok("uses", 0), "imports")
    /\ UNCHANGED <<resources, set_split_strategy, strategy0, modules_count,
                   set_file, should_split, next_resource, module_index,
                   previous>>

\* lines 118-123
WriteImports ==
    /\ WriteStep("imports", mod_rs, Tok("imports", 0), "first_set")
    /\ UNCHANGED <<resources, set_split_strategy, strategy0, modules_count,
                   set_file, should_split, next_resource, module_index,
                   previous>>

\* lines 125-127: modules_count = 1 and the call create_set_module_file(.., 1)
FirstSet ==
    /\ pc = "first_set"
    /\ modules_count' = 1
    /\ module_index' = modules_count'
    /\ pc' = "set_create"
    /\ UNCHANGED <<fs, resources, set_split_strategy, strategy0, set_file,
                   should_split, next_resource, failed, log, previous>>

\* the handle bound by a `let` inside the `if` block, dropped at its end
Rebind_shadowed(old, new) == IF old = 0 THEN new ELSE old

\* lines 127 and 136: `set_file = create_set_module_file(..)?` moves the new
\* handle into the variable declared before the loop
Rebind(old, new) == new

\* line 176, inside create_set_module_file
SetCreate ==
    /\ CreateStep("set_create", SetName(module_index), "set_prologue")
    /\ UNCHANGED <<resources, set_split_strategy, strategy0, modules_count,
                   set_file, should_split, next_resource, module_index,
                   previous>>

\* register left out of the iteration that splits
AfterCreate_skip(handle) == IF handle = 0 THEN "pre_query" ELSE "insert"

\* where create_set_module_file returns to: line 128 after the call of line
\* 127 (no handle yet), line 138 after the call of line 136
AfterCreate(handle) == IF handle = 0 THEN "pre_query" ELSE "register"

\* lines 178-187: the prologue, then the handle is returned to the caller,
\* which is at line 127 before the loop and at line 136 inside it
SetPrologue ==
    /\ WriteStep("set_prologue", SetName(module_index), Tok("prologue", 0),
                 AfterCreate(set_file))
    /\ set_file' = IF pc' = "err" THEN set_file ELSE Rebind(set_file, module_index)
    /\ UNCHANGED <<resources, set_split_strategy, strategy0, modules_count,
                   should_split, next_resource, module_index, previous>>

\* line 128
PreQuery ==
    /\ pc = "pre_query"
    /\ should_split' \in should_split_of(set_split_strategy)
    /\ log' = Append(log, Ev("should_split", "strategy", IF should_split' THEN 1 ELSE 0))
    /\ pc' = "loop"
    /\ UNCHANGED <<fs, resources, set_split_strategy, strategy0, modules_count,
                   set_file, next_resource, module_index, failed, previous>>

\* the increment left out
NextCount_same(c) == c

\* line 134
NextCount(c) == c + 1

\* lines 130-134: the loop head, the test of the carried flag, reset and
\* the increment
LoopHead ==
    /\ pc = "loop"
    /\ IF next_resource > Len(resources)
         THEN /\ pc' = "close_last"
              /\ UNCHANGED <<set_split_strategy, modules_count, log>>
         ELSE IF should_split
         THEN /\ set_split_strategy' = reset(set_split_strategy)
              /\ modules_count' = NextCount(modules_count)
              /\ log' = Append(log, Ev("reset", "strategy", 0))
              /\ pc' = "close_set"
         ELSE /\ pc' = "register"
              /\ UNCHANGED <<set_split_strategy, modules_count, log>>
    /\ UNCHANGED <<fs, resources, strategy0, set_file, should_split,
                   next_resource, module_index, failed, previous>>

\* lines 135-136: the closing brace of the current module file, then the
\* call create_set_module_file(.., modules_count)
CloseSet ==
    /\ WriteStep("close_set", SetName(set_file), Tok("end", 0), "set_create")
    /\ module_index' = IF pc' = "err" THEN module_index ELSE modules_count
    /\ UNCHANGED <<resources, set_split_strategy, strategy0, modules_count,
                   set_file, should_split, next_resource, previous>>

\* the answer bound by a new `let`, the flag of the loop left as it was
CarriedFlag_stale(old, answer) == old

\* line 139: the answer is assigned to the flag declared before the loop
CarriedFlag(old, answer) == answer

\* lines 138-139
Register ==
    /\ pc = "register"
    /\ set_split_strategy' = register(set_split_strategy)
    /\ \E answer \in should_split_of(set_split_strategy') :
        /\ should_split' = CarriedFlag(should_split, answer)
        /\ log' = log \o <<Ev("register", "strategy", next_resource),
                           Ev("should_split", "strategy", IF answer THEN 1 ELSE 0)>>
    /\ pc' = "insert"
    /\ UNCHANGED <<fs, resources, strategy0, modules_count, set_file,
                   next_resource, module_index, failed, previous>>

\* line 141, and the loop's advance
Insert ==
    /\ WriteStep("insert", SetName(set_file), Tok("insert", next_resource), "loop")
    /\ next_resource' = IF pc' = "err" THEN next_resource ELSE next_resource + 1
    /\ UNCHANGED <<resources, set_split_strategy, strategy0, modules_count,
                   set_file, should_split, module_index, previous>>

\* line 144; then the first loop over 1..=modules_count starts
CloseLast ==
    /\ WriteStep("close_last", SetName(set_file), Tok("end", 0), "decl")
    /\ module_index' = IF pc' = "err" THEN module_index ELSE 1
    /\ UNCHANGED <<resources, set_split_strategy, strategy0, modules_count,
                   set_file, should_split, next_resource, previous>>

\* the range 1..modules_count, its end excluded
RangeInclusive_excl(count) == [k \in 1..(count - 1) |-> k]

\* the range iterated from its end
RangeInclusive_rev(count) == [k \in 1..count |-> count - k + 1]

\* lines 146 and 154: the range 1..=modules_count, in iteration order
RangeInclusive(count) == [k \in 1..count |-> k]

\* lines 146-148
Declare ==
    /\ pc = "decl"
    /\ IF module_index > Len(RangeInclusive(modules_count))
         THEN /\ pc' = "fn_header"
              /\ UNCHANGED <<fs, module_index, failed, log>>
         ELSE /\ WriteStep("decl", mod_rs,
                           Tok("mod", RangeInclusive(modules_count)[module_index]), "decl")
              /\ module_index' = IF pc' = "err" THEN module_index ELSE module_index + 1
    /\ UNCHANGED <<resources, set_split_strategy, strategy0, modules_count,
                   set_file, should_split, next_resource, previous>>

\* line 150
FunctionHeader ==
    /\ WriteStep("fn_header", mod_rs, Tok("fn_header", 0), "var_header")
    /\ UNCHANGED <<resources, set_split_strategy, strategy0, modules_count,
                   set_file, should_split, next_resource, module_index,
                   previous>>

\* line 152; then the second loop over 1..=modules_count starts
VariableHeader ==
    /\ WriteStep("var_header", mod_rs, Tok("var_header", 0), "calls")
    /\ module_index' = IF pc' = "err" THEN module_index ELSE 1
    /\ UNCHANGED <<resources, set_split_strategy, strategy0, modules_count,
                   set_file, should_split, next_resource, previous>>

\* lines 154-159
Call ==
    /\ pc = "calls"
    /\ IF module_index > Len(RangeInclusive(modules_count))
         THEN /\ pc' = "var_return"
              /\ UNCHANGED <<fs, module_index, failed, log>>
         ELSE /\ WriteStep("calls", mod_rs,
                           Tok("call", RangeInclusive(modules_count)[module_index]), "calls")
              /\ module_index' = IF pc' = "err" THEN module_index ELSE module_index + 1
    /\ UNCHANGED <<resources, set_split_strategy, strategy0, modules_count,
                   set_file, should_split, next_resource, previous>>

\* line 161
VariableReturn ==
    /\ WriteStep("var_return", mod_rs, Tok("var_return", 0), "fn_end")
    /\ UNCHANGED <<resources, set_split_strategy, strategy0, modules_count,
                   set_file, should_split, next_resource, module_index,
                   previous>>

\* line 163
FunctionEnd ==
    /\ WriteStep("fn_end", mod_rs, Tok("end", 0), "shim")
    /\ UNCHANGED <<resources, set_split_strategy, strategy0, modules_count,
                   set_file, should_split, next_resource, module_index,
                   previous>>

\* lines 165-172
WriteShim ==
    /\ WriteStep("shim", generated_filename, Tok("shim", 0), "done")
    /\ UNCHANGED <<resources, set_split_strategy, strategy0, modules_count,
                   set_file, should_split, next_resource, module_index,
                   previous>>

\* the caller runs generate_resources_sets once more: the same project
\* directory, a clean output directory, a strategy in the state the first
\* run was given
Rerun ==
    /\ pc = "done"
    /\ DOMAIN previous = {}
    /\ strategy0.kind = "count"
    /\ previous' = fs
    /\ fs' = <<>>
    /\ set_split_strategy' = strategy0
    /\ pc' = "collect"
    /\ modules_count' = 0
    /\ set_file' = 0
    /\ should_split' = FALSE
    /\ next_resource' = 1
    /\ module_index' = 0
    /\ failed' = FALSE
    /\ log' = <<>>
    /\ UNCHANGED <<resources, strategy0>>

\* ---- the strategy used on its own --------------------------------------
\* lines 39-41, called by any caller
StrategyRegister ==
    /\ pc = "strategy"
    /\ Len(log) < MaxCalls
    /\ set_split_strategy' = register(set_split_strategy)
    /\ log' = Append(log, Ev("register", "strategy", 0))
    /\ UNCHANGED <<pc, fs, resources, strategy0, modules_count, set_file,
                   should_split, next_resource, module_index, failed, previous>>

\* lines 43-45, called by any caller: `&self`, the answer is all it gives
StrategyShouldSplit ==
    /\ pc = "strategy"
    /\ Len(log) < MaxCalls
    /\ should_split' \in should_split_of(set_split_strategy)
    /\ log' = Append(log, Ev("should_split", "strategy", IF should_split' THEN 1 ELSE 0))
    /\ UNCHANGED <<pc, fs, resources, set_split_strategy, strategy0, modules_count,
                   set_file, next_resource, module_index, failed, previous>>

\* lines 47-49, called by any caller
StrategyReset ==
    /\ pc = "strategy"
    /\ Len(log) < MaxCalls
    /\ set_split_strategy' = reset(set_split_strategy)
    /\ log' = Append(log, Ev("reset", "strategy", 0))
    /\ UNCHANGED <<pc, fs, resources, strategy0, modules_count, set_file,
                   should_split, next_resource, module_index, failed, previous>>

Next ==
    \/ CollectResources
    \/ CreateGeneratedFile
    \/ CreateModuleDir
    \/ CreateModuleFile
    \/ GenerateUses
    \/ WriteImports
    \/ FirstSet
    \/ SetCreate
    \/ SetPrologue
    \/ PreQuery
    \/ LoopHead
    \/ CloseSet
    \/ Register
    \/ Insert
    \/ CloseLast
    \/ Declare
    \/ FunctionHeader
    \/ VariableHeader
    \/ Call
    \/ VariableReturn
    \/ FunctionEnd
    \/ WriteShim
    \/ Rerun
    \/ StrategyRegister
    \/ StrategyShouldSplit
    \/ StrategyReset

\* ---- what the claims speak about ------------------------------------------
Done == pc = "done"
n == Len(resources)

\* the strategy was handed over as SplitByCount::new(max)
FreshCount == strategy0.kind = "count" /\ strategy0.current = 0

Maximum(a, b) == IF a >= b THEN a ELSE b
Minimum(a, b) == IF a <= b THEN a ELSE b
CeilDiv(a, b) == (a + b - 1) \div b

SetIndices == {f.idx : f \in {g \in DOMAIN fs : g.kind = "set"}}

IsInsert(tok) == tok.t = "insert"
Resource(tok) == tok.r

\* the resources module file set_<i> inserts, in the order of its statements
Inserts(i) ==
    LET toks == SelectSeq(fs[SetName(i)], IsInsert)
    IN  [k \in 1..Len(toks) |-> toks[k].r]

\* the indices of the aggregator's fragments of one kind, in file order
Indices(kind) ==
    LET Is(tok) == tok.t = kind
        toks == SelectSeq(fs[mod_rs], Is)
    IN  [k \in 1..Len(toks) |-> toks[k].r]

Count(seq, Test(_)) == Len(SelectSeq(seq, Test))

RECURSIVE SumLen(_)
SumLen(S) ==
    IF S = {} THEN 0
    ELSE LET i == CHOOSE x \in S : TRUE
         IN  Len(Inserts(i)) + SumLen(S \ {i})

\* C1: a run with a fresh SplitByCount::new(max), max >= 1, over n resources
\* ends with modules_count = max(1, ceil(n / max))
C1_CountFormula ==
    (Done /\ FreshCount /\ strategy0.max >= 1)
        => modules_count = Maximum(1, CeilDiv(n, strategy0.max))

C1_Witness ==
    Done /\ FreshCount /\ strategy0.max = 2 /\ n = 5 /\ modules_count = 3

\* C2 as stated: with a fresh SplitByCount::new(0) a run ends with
\* modules_count = n when n >= 1 and 1 when n = 0
C2_AsStated ==
    (Done /\ FreshCount /\ strategy0.max = 0)
        => modules_count = (IF n >= 1 THEN n ELSE 1)

\* C2 amended: with a fresh SplitByCount::new(0) a run ends with
\* modules_count = n + 1: set_1 holds no resource and resource k is alone in
\* set_<k+1>
C2_ZeroThreshold ==
    (Done /\ FreshCount /\ strategy0.max = 0)
        => /\ modules_count = n + 1
           /\ SetIndices = 1..(n + 1)
           /\ Inserts(1) = <<>>
           /\ \A k \in 1..n : Inserts(k + 1) = <<k>>

C2_Witness ==
    Done /\ FreshCount /\ strategy0.max = 0 /\ n = 3 /\ modules_count = 4

\* the places <<module, position>> of the insert statements
Statements == UNION {{<<i, k>> : k \in 1..Len(Inserts(i))} : i \in SetIndices}

\* C3: after a run the module files hold n insert statements in all, and
\* every discovered resource has exactly one, in exactly one module file
C3_OneInsertEach ==
    Done =>
        /\ SumLen(SetIndices) = n
        /\ \A r \in 1..n :
             Cardinality({p \in Statements : Inserts(p[1])[p[2]] = r}) = 1

C3_Witness ==
    Done /\ n >= 3 /\ modules_count >= 2 /\ strategy0.kind = "other"

\* C4: after a run the aggregator declares set_1 .. set_<modules_count> and
\* calls them, each once and in ascending order, and the module files created
\* are exactly set_1 .. set_<modules_count>, modules_count >= 1
C4_Contiguous ==
    Done =>
        /\ modules_count >= 1
        /\ Indices("mod") = [k \in 1..modules_count |-> k]
        /\ Indices("call") = [k \in 1..modules_count |-> k]
        /\ SetIndices = 1..modules_count
        /\ {e.i : e \in {log[k] : k \in {j \in 1..Len(log) :
                  log[j].op = "create" /\ log[j].f = "set"}}} = 1..modules_count

C4_Witness ==
    Done /\ modules_count = 3 /\ Indices("call") = <<1, 2, 3>>

\* C5: after a run every module file was created once, starts with its one
\* prologue, ends with its one closing brace and holds only insert
\* statements in between
C5_WellFormed ==
    Done =>
        \A i \in SetIndices :
            LET toks == fs[SetName(i)]
                Created(e) == e.op = "create" /\ e.f = "set" /\ e.i = i
            IN  /\ Count(log, Created) = 1
                /\ Len(toks) >= 2
                /\ toks[1] = Tok("prologue", 0)
                /\ toks[Len(toks)] = Tok("end", 0)
                /\ \A k \in 2..(Len(toks) - 1) : toks[k].t = "insert"

C5_Witness ==
    /\ Done
    /\ modules_count >= 2
    /\ Len(fs[SetName(1)]) >= 3
    /\ Len(fs[SetName(2)]) >= 3

RECURSIVE Concat(_)
Concat(seqs) == IF seqs = <<>> THEN <<>> ELSE Head(seqs) \o Concat(Tail(seqs))

\* the insert statements in the order the aggregator's calls execute them
CallOrder ==
    LET calls == Indices("call")
    IN  Concat([k \in 1..Len(calls) |-> Inserts(calls[k])])

\* C6: after a run the insert statements of set_1, set_2, .. taken in the
\* order the aggregator calls the modules are the discovered resources in
\* discovery order
C6_DiscoveryOrder ==
    Done =>
        /\ CallOrder = [k \in 1..n |-> k]
        /\ Concat([i \in 1..modules_count |-> Inserts(i)]) = [k \in 1..n |-> k]

C6_Witness ==
    /\ Done
    /\ n = 4
    /\ modules_count = 3
    /\ Inserts(1) = <<1>>
    /\ Inserts(2) = <<2, 3>>
    /\ Inserts(3) = <<4>>

\* the resources at positions a .. b, in order
Segment(a, b) == [k \in 1..(b - a + 1) |-> a + k - 1]

\* C7: with a fresh SplitByCount::new(max), max >= 1, module i holds the
\* resources at positions (i-1)*max+1 .. min(i*max, n), no module more than max
C7_Distribution ==
    (Done /\ FreshCount /\ strategy0.max >= 1) =>
        \A i \in SetIndices :
            /\ Inserts(i) = Segment((i - 1) * strategy0.max + 1,
                                    Minimum(i * strategy0.max, n))
            /\ Len(Inserts(i)) <= strategy0.max
            /\ (i < modules_count => Len(Inserts(i)) = strategy0.max)
            /\ (i = modules_count /\ n >= 1 => Len(Inserts(i)) >= 1)

C7_Witness ==
    /\ Done /\ FreshCount /\ strategy0.max = 2 /\ n = 5
    /\ Inserts(1) = <<1, 2>> /\ Inserts(2) = <<3, 4>> /\ Inserts(3) = <<5>>

\* ---- the generated code, executed ---------------------------------------
\* map.insert(key, resource): a later insert of a key replaces the earlier
MapInsert(map, key, r) ==
    [k \in (DOMAIN map) \cup {key} |-> IF k = key THEN r ELSE map[k]]

\* set_<i>::generate(&mut map): the insert statements of one module, in order
RECURSIVE generate(_, _)
generate(map, toks) ==
    IF toks = <<>> THEN map
    ELSE generate(IF Head(toks).t = "insert"
                    THEN MapInsert(map, resources[Head(toks).r], Head(toks).r)
                    ELSE map,
                  Tail(toks))

\* the exported function: a new map, the calls in file order, the map returned
RECURSIVE RunCalls(_, _)
RunCalls(map, calls) ==
    IF calls = <<>> THEN map
    ELSE RunCalls(generate(map, fs[SetName(Head(calls))]), Tail(calls))

ExportedFn == RunCalls(<<>>, Indices("call"))

KeysPresent == {resources[i] : i \in 1..n}
LastWithKey(key) ==
    CHOOSE i \in 1..n : resources[i] = key /\ \A j \in (i + 1)..n : resources[j] # key

\* C8: with no resource discovered a run of any strategy ends with
\* modules_count = 1, the one module file set_1 with an empty generate
\* function, no register and no reset call, and an aggregator that calls
\* set_1 only and returns an empty map
C8_Empty ==
    (Done /\ n = 0) =>
        /\ modules_count = 1
        /\ SetIndices = {1}
        /\ fs[SetName(1)] = <<Tok("prologue", 0), Tok("end", 0)>>
        /\ \A k \in 1..Len(log) : log[k].op \notin {"register", "reset"}
        /\ Indices("mod") = <<1>>
        /\ Indices("call") = <<1>>
        /\ ExportedFn = <<>>

C8_Witness ==
    Done /\ n = 0 /\ should_split /\ Len(fs[SetName(1)]) = 2

\* C9: the map the exported function returns holds, for every key of a
\* discovered resource, the resource discovered last with that key, and
\* nothing else
C9_LastWriteWins ==
    Done =>
        /\ DOMAIN ExportedFn = KeysPresent
        /\ \A key \in KeysPresent : ExportedFn[key] = LastWithKey(key)
        /\ Cardinality(DOMAIN ExportedFn) = Cardinality(KeysPresent)

\* two resources of one key in different modules, another key in between
C9_Witness ==
    /\ Done
    /\ n = 3
    /\ resources = <<1, 2, 1>>
    /\ Inserts(1) = <<1, 2>>
    /\ Inserts(2) = <<3>>
    /\ ExportedFn = (1 :> 3 @@ 2 :> 2)

IsPrefix(a, b) == Len(a) <= Len(b) /\ \A k \in 1..Len(a) : a[k] = b[k]

\* C10: a failed I/O step ends the call with the error; the step creates no
\* file and removes none, no file loses what was written to it, and nothing
\* happens after the error
C10_Abort ==
    [][/\ failed' =>
            /\ pc' = "err"
            /\ DOMAIN fs' = DOMAIN fs
            /\ \A f \in DOMAIN fs : IsPrefix(fs[f], fs'[f])
            /\ log' = log
       /\ pc = "err" => (pc' = "err" /\ fs' = fs /\ log' = log)]_vars

C10_Witness ==
    /\ pc = "err"
    /\ failed
    /\ SetIndices = {1, 2}
    /\ fs[SetName(1)][Len(fs[SetName(1)])] = Tok("end", 0)
    /\ fs[SetName(2)] = <<Tok("prologue", 0)>>
    /\ mod_rs \in DOMAIN fs

Triggered(r) ==
    \E p \in 1..(Len(log) - 1) :
        /\ log[p] = Ev("register", "strategy", r)
        /\ log[p + 1] = Ev("should_split", "strategy", 1)

\* the module file that holds the insert statement of resource r
ModuleOf(r) == CHOOSE i \in SetIndices : \E k \in 1..Len(Inserts(i)) : Inserts(i)[k] = r

\* C12 as stated: the resource whose registration made should_split() return
\* true is the first resource of a newly opened module
C12_AsStated ==
    Done =>
        \A r \in 1..n :
            Triggered(r) =>
                \E i \in SetIndices \ {1} : Inserts(i) # <<>> /\ Inserts(i)[1] = r

\* C12 amended: the resource whose registration made should_split() return
\* true is the last resource of the module open at that time; the resource
\* after it, if there is one, is the first of the next module, and a
\* resource whose registration answered false is followed in its own module
C12_SplitAfterTrigger ==
    Done =>
        \A r \in 1..n :
            LET i == ModuleOf(r)
            IN  IF Triggered(r)
                  THEN /\ Inserts(i)[Len(Inserts(i))] = r
                       /\ r < n => /\ i + 1 \in SetIndices
                                    /\ Inserts(i + 1)[1] = r + 1
                       /\ r = n => i = modules_count
                  ELSE r < n => ModuleOf(r + 1) = i

C12_Witness ==
    /\ Done
    /\ n = 4
    /\ Triggered(2) /\ ~Triggered(1) /\ ~Triggered(3) /\ Triggered(4)
    /\ Inserts(1) = <<1, 2>>
    /\ Inserts(2) = <<3, 4>>

\* the state is one of a call of generate_resources_sets
InRun == pc # "strategy"

IsRegister(e) == e.op = "register"
Registered == SelectSeq(log, IsRegister)

IsInsertWrite(e) == e.op = "write" /\ e.tok.t = "insert"
InsertsWritten ==
    LET evs == SelectSeq(log, IsInsertWrite)
    IN  [k \in 1..Len(evs) |-> [i |-> evs[k].tok.r]]

\* the k-th call of the sequence is about resource k
InOrder(calls) == \A k \in 1..Len(calls) : calls[k].i = k

\* the call at place p of the log wrote token tok to a module file
Wrote(p, tok) ==
    /\ p \in 1..Len(log)
    /\ log[p].op = "write"
    /\ log[p].f = "set"
    /\ log[p].tok = tok

\* the call at place p of the log ended the work on resource r - 1: its
\* insert statement, or for the first resource the query before the loop
EndsPrevious(p, r) ==
    IF r = 1 THEN /\ p \in 1..Len(log)
                  /\ log[p].op = "should_split"
                  /\ log[p - 1].op = "write"
             ELSE Wrote(p, Tok("insert", r - 1))

\* the calls at places p - 3 .. p are one split: reset, the closing brace,
\* the new file, its prologue
SplitEnds(p) ==
    /\ p - 3 \in 1..Len(log)
    /\ log[p - 3].op = "reset"
    /\ Wrote(p - 2, Tok("end", 0))
    /\ log[p - 1].op = "create" /\ log[p - 1].f = "set"
    /\ log[p - 1].i = log[p - 2].i + 1
    /\ Wrote(p, Tok("prologue", 0))
    /\ log[p].i = log[p - 1].i

\* the step has logged a register call (with its query), an insert
\* statement, or the call that follows a register and its query, or it has
\* returned Ok
LogsRegisterOrInsert ==
    /\ log' # log
    /\ LET len == Len(log')
       IN  \/ pc' = "done"
           \/ len >= 1 /\ IsInsertWrite(log'[len])
           \/ len >= 2 /\ log'[len - 1].op = "register"
           \/ len >= 3 /\ log'[len - 2].op = "register"

\* the calls logged so far are in the order of C13
RegisterOrder ==
    InRun =>
      /\ InOrder(Registered)
      /\ InOrder(InsertsWritten)
      /\ Len(Registered) <= n
      /\ Done => Len(Registered) = n
      /\ \A p \in 1..Len(log) :
           log[p].op = "register" =>
              LET r == log[p].i
              IN  /\ \/ EndsPrevious(p - 1, r)
                     \/ SplitEnds(p - 1) /\ EndsPrevious(p - 5, r)
                  /\ p + 1 <= Len(log) /\ log[p + 1].op = "should_split"
                  /\ p + 2 <= Len(log) => Wrote(p + 2, Tok("insert", r))
                  /\ Done => Wrote(p + 2, Tok("insert", r))

\* C13: register is called once per resource, in discovery order, after the
\* split of the same iteration if there is one, and before the insert
\* statement of the resource is written (stated of the log after every step
\* that can change what RegisterOrder says of it)
C13_RegisterOrder == [][LogsRegisterOrInsert => RegisterOrder']_vars

C13_Witness ==
    /\ Done
    /\ n = 3
    /\ Len(Registered) = 3
    /\ \E p \in 6..Len(log) :
         /\ log[p] = Ev("register", "strategy", 2)
         /\ SplitEnds(p - 1)
         /\ Wrote(p - 5, Tok("insert", 1))
         /\ Wrote(p + 2, Tok("insert", 2))

IsReset(e) == e.op = "reset"
IsSetCreate(e) == e.op = "create" /\ e.f = "set"
IsSetClose(e) == e.op = "write" /\ e.f = "set" /\ e.tok.t = "end"

\* at the loop head: as many set files created as modules_count says, one
\* more than reset() calls and than closing braces, named set_1 ..
AtBoundary ==
    pc = "loop" =>
        LET created == SelectSeq(log, IsSetCreate)
        IN  /\ Len(created) = modules_count
            /\ \A k \in 1..Len(created) : created[k].i = k
            /\ modules_count = 1 + Count(log, IsReset)
            /\ modules_count = 1 + Count(log, IsSetClose)

\* one step of modules_count: set to 1 at line 125, one more, together with
\* one reset(), in the iterations that start with the flag set and in no
\* other step of the call
CountStep ==
    InRun =>
      IF pc = "loop" /\ next_resource <= n /\ should_split
        THEN /\ modules_count' = modules_count + 1
             /\ log' = Append(log, Ev("reset", "strategy", 0))
        ELSE \/ modules_count' = modules_count /\ Count(log', IsReset) = Count(log, IsReset)
             \/ pc = "first_set" /\ modules_count' = 1
             \/ pc = "done"

\* C14: modules_count starts at 1 and grows by one, with one reset(), one
\* closing brace and one new file of that index, in the iterations whose
\* pending flag is set, and only there; at every loop head the number of set
\* files created = modules_count = 1 + the number of reset() calls
C14_ModulesCount == []AtBoundary /\ [][CountStep]_vars

C14_Witness ==
    /\ pc = "loop"
    /\ modules_count = 3
    /\ Count(log, IsReset) = 2
    /\ Count(log, IsSetCreate) = 3
    /\ ~should_split
    /\ next_resource <= n

\* the closing brace of set_<i> has been written
Closed(i) ==
    LET toks == fs[SetName(i)]
    IN  toks # <<>> /\ toks[Len(toks)] = Tok("end", 0)

\* the step has written one insert statement to the file
InsertAdded(before, after) ==
    Len(after) = Len(before) + 1 /\ after[Len(after)].t = "insert"

\* one step of a run, seen from the module files
SetFilesStep ==
    pc # "done" =>
        /\ \A i \in SetIndices :
              /\ SetName(i) \in DOMAIN fs'
              /\ IsPrefix(fs[SetName(i)], fs'[SetName(i)])
              /\ Closed(i) => fs'[SetName(i)] = fs[SetName(i)]
        /\ \A i \in SetIndices :
              InsertAdded(fs[SetName(i)], fs'[SetName(i)])
                  => /\ i = modules_count
                     /\ \A j \in SetIndices : j <= i
                     /\ ~Closed(i)
                     /\ \A j \in SetIndices \ {i} : Closed(j)

\* C15: a module file that has its closing brace is never written to again
\* and no module file is created a second time in the run; every insert
\* statement goes to the file of the highest index, the only one without its
\* closing brace
C15_NoReopen == [][SetFilesStep]_vars

C15_Witness ==
    /\ pc = "loop"
    /\ SetIndices = {1, 2, 3}
    /\ Closed(1) /\ Closed(2) /\ ~Closed(3)
    /\ Len(Inserts(1)) >= 1
    /\ Len(Inserts(3)) >= 2

\* the register calls since the last reset, or since new if there was none
RECURSIVE SinceReset(_)
SinceReset(calls) ==
    IF calls = <<>> THEN 0
    ELSE LET e == calls[Len(calls)]
         IN  IF e.op = "reset" THEN 0
             ELSE SinceReset(SubSeq(calls, 1, Len(calls) - 1))
                    + (IF e.op = "register" THEN 1 ELSE 0)

\* C16: after any calls on a SplitByCount built by new(max), should_split()
\* is true exactly if the register calls since the last reset (or since new)
\* are max or more; after reset the count starts from zero
C16_SplitByCount ==
    pc = "strategy" =>
        /\ should_split_of(set_split_strategy)
              = {SinceReset(log) >= set_split_strategy.max}
        /\ (log # <<>> /\ log[Len(log)].op = "should_split")
              => should_split = (SinceReset(log) >= set_split_strategy.max)
        /\ (log # <<>> /\ log[Len(log)].op = "reset")
              => set_split_strategy.current = 0

C16_Witness ==
    /\ pc = "strategy"
    /\ set_split_strategy.max = 2
    /\ Len(log) = 5
    /\ log[1].op = "register" /\ log[2].op = "register"
    /\ log[3].op = "reset"
    /\ log[4].op = "register"
    /\ log[5].op = "should_split"
    /\ ~should_split

Last(seq) == seq[Len(seq)]

\* a call of should_split on a SplitByCount leaves the strategy as it is and
\* repeats the answer of a should_split call made just before it
QueryStep ==
    /\ (pc = "strategy" /\ Len(log') = Len(log) + 1 /\ Last(log').op = "should_split")
         => /\ set_split_strategy' = set_split_strategy
            /\ (log # <<>> /\ Last(log).op = "should_split")
                  => Last(log').i = Last(log).i
    /\ pc = "pre_query" => set_split_strategy' = set_split_strategy

\* at the loop head the carried flag is what should_split() would answer
FlagCurrent ==
    (pc = "loop" /\ set_split_strategy.kind = "count")
        => should_split_of(set_split_strategy) = {should_split}

\* C17: SplitByCount::should_split changes neither current nor max and
\* answers the same when called again with no register or reset in
\* between; the flag carried to the next iteration is the answer
\* should_split() would give there
C17_Pure == []FlagCurrent /\ [][QueryStep]_vars

C17_Witness ==
    /\ pc = "strategy"
    /\ set_split_strategy = [kind |-> "count", current |-> 2, max |-> 2]
    /\ Len(log) = 4
    /\ log[3] = Ev("should_split", "strategy", 1)
    /\ log[4] = Ev("should_split", "strategy", 1)

IsQuery(e) == e.op = "should_split"

\* the answer of the should_split() call of line 128
PreLoopFlag == SelectSeq(log, IsQuery)[1].i = 1

\* C18: whatever the strategy answers, after a run no module file of index
\* 2 or more is empty, a flag left set after the last resource has opened no
\* further module, and set_1 is empty only if nothing was discovered or the
\* flag was set before the loop
C18_NoEmptyModule ==
    Done =>
        /\ \A i \in SetIndices : i >= 2 => Inserts(i) # <<>>
        /\ n >= 1 => /\ modules_count \in SetIndices
                      /\ Inserts(modules_count) # <<>>
                      /\ Last(Inserts(modules_count)) = n
        /\ \A i \in SetIndices : i <= modules_count
        /\ Inserts(1) = <<>> => (n = 0 \/ PreLoopFlag)

C18_Witness ==
    /\ Done
    /\ strategy0.kind = "other"
    /\ should_split
    /\ PreLoopFlag
    /\ n = 3
    /\ modules_count = 3
    /\ Inserts(1) = <<>>
    /\ Inserts(3) = <<3>>

ShimExists == generated_filename \in DOMAIN fs
Shim == fs[generated_filename]

\* the aggregator file has all its fragments
AggregatorComplete ==
    /\ mod_rs \in DOMAIN fs
    /\ fs[mod_rs] = <<Tok("uses", 0), Tok("imports", 0)>>
                      \o [k \in 1..modules_count |-> Tok("mod", k)]
                      \o <<Tok("fn_header", 0), Tok("var_header", 0)>>
                      \o [k \in 1..modules_count |-> Tok("call", k)]
                      \o <<Tok("var_return", 0), Tok("end", 0)>>

\* the root shim is the first file created, and when it holds anything the
\* module files are closed and the aggregator is complete
ShimLast ==
    /\ (InRun /\ DOMAIN fs # {}) => ShimExists
    /\ (ShimExists /\ Shim # <<>>)
         => /\ AggregatorComplete
            /\ SetIndices = 1..modules_count
            /\ \A i \in SetIndices : Closed(i)

\* C20 as stated: the root shim is created first and written last, and
\* after a run that an I/O error has ended it is empty if it exists
C20_AsStated ==
    /\ ShimLast
    /\ (pc = "err" /\ ShimExists) => Shim = <<>>

\* C20 amended: the root shim is created first and written last; after a
\* run that an I/O error has ended it never holds its content: it is empty,
\* or, when the step that failed is the write of the shim itself, it may
\* hold a part of the content
C20_ShimLast ==
    /\ ShimLast
    /\ ShimExists =>
         /\ Shim \in {<<>>, <<Tok("shim", 0)>>, <<Tok("torn", 0)>>}
         /\ Shim = <<Tok("shim", 0)>> <=> pc = "done"
         /\ Shim = <<Tok("torn", 0)>> => pc = "err"

C20_Witness ==
    /\ pc = "err"
    /\ ShimExists
    /\ Shim = <<Tok("torn", 0)>>
    /\ AggregatorComplete
    /\ modules_count = 2

Spec == Init /\ [][Next]_vars

====
